---- MODULE Spec2Model ----
(***************************************************************************)
(* Model of VisualQueryEditor (src/components/QueryEditor/                 *)
(* VisualQueryEditor.tsx): the function component's props, its four        *)
(* useMemo cells, the promises they hold, the option requests of the       *)
(* pickers and the gestures that commit a Query through onChange.          *)
(*                                                                         *)
(* A state is the component right after a render.  Every gesture action    *)
(* runs the handler, hands the new Query to the host (which keeps it as    *)
(* the query prop) and renders again.  Promise continuations are           *)
(* microtasks: they run to completion before the next event, so an option  *)
(* request on a settled promise is answered inside the opening step and a  *)
(* settling fetch answers every request waiting on it in the same step.    *)
(***************************************************************************)
EXTENDS Integers, Sequences, FiniteSets, TLC

VARIABLES
  client,                   \* identity of datasource.client            (l.18)
  hostQuery,                \* the query prop as the host handed it     (l.17)
  query,                    \* the query prop after defaults()          (l.20)
  promises,                 \* every promise created for a schema lookup, by id
  getAllTables,             \* useMemo cell [deps, value]               (l.45)
  getColumnSchema,          \* useMemo cell [deps, value]               (l.54)
  getTimeColumns,           \* useMemo cell [deps, value]               (l.63)
  selectedColumns,          \* the displayed list, placeholder included (l.72)
  unselectedColumnsSchemas, \* the promise made by this render          (l.74)
  pickers,                  \* option request and options of each picker
  onChange,                 \* the Queries this step handed to props.onChange (l.26)
  handled                   \* the picker whose onChange prop this step ran

vars == <<client, hostQuery, query, promises, getAllTables, getColumnSchema,
          getTimeColumns, selectedColumns, unselectedColumnsSchemas, pickers,
          onChange, handled>>

-----------------------------------------------------------------------------
(* Bounds *)

\* promises a run may create for schema lookups
MaxPromises == 4

-----------------------------------------------------------------------------
(* Values *)

undefined == "undefined"
foobar == "foobar"

\* FieldType.time of @grafana/data
FieldTypeTime == "time"

\* what client.showTables() resolves to
showTables == <<"A", "B">>

\* what client.queryColumnSchemaOfTable(table) resolves to
queryColumnSchemaOfTable(table) ==
  IF table = "A"
    THEN << [name |-> "ts",     data_type |-> "TimestampMillisecond"],
            [name |-> "cpu",    data_type |-> "Float64"],
            [name |-> "foobar", data_type |-> "Float64"] >>
    ELSE << [name |-> "ts",     data_type |-> "TimestampSecond"] >>

\* greptimedb/utils: the Grafana field type of a Greptime data type
mapGreptimeTypeToGrafana(data_type) ==
  IF data_type \in {"TimestampMillisecond", "TimestampSecond"} THEN FieldTypeTime
  ELSE IF data_type = "Float64" THEN "number"
  ELSE "string"

-----------------------------------------------------------------------------
(* Sequence helpers: Array.prototype.map / filter / includes / slice(0,-1) *)

Range(s) == {s[i] : i \in 1..Len(s)}

Includes(s, x) == x \in Range(s)

NoDuplicates(s) == \A i, j \in 1..Len(s) : i # j => s[i] # s[j]

Values(options) == [i \in 1..Len(options) |-> options[i].value]

DropLast(s) == SubSeq(s, 1, Len(s) - 1)

-----------------------------------------------------------------------------
(* Option derivation *)

toOption(value) == [label |-> value, value |-> value]

\* l.49-52: the table options, from the resolved table list
handleLoadFromTables(tables) == [i \in 1..Len(tables) |-> toOption(tables[i])]

\* the filter of l.66 left out: every column is offered as time column
timeColumnsUnfiltered(columns) == [i \in 1..Len(columns) |-> toOption(columns[i].name)]

\* l.63-68: the time column options, from the resolved column list
timeColumns(columns) ==
  LET isTime(column) == mapGreptimeTypeToGrafana(column.data_type) = FieldTypeTime
      kept == SelectSeq(columns, isTime)
  IN [i \in 1..Len(kept) |-> toOption(kept[i].name)]

\* the filter of l.76 left out: every column is kept
unselectedColumnsUnfiltered(columns, selected) == columns

\* l.74-77: the columns the displayed list (placeholder included) does not hold
unselectedColumns(columns, selected) ==
  LET notIncluded(column) == ~Includes(selected, column.name)
  IN SelectSeq(columns, notIncluded)

\* l.79-81
handleLoadUnselectedColumns(columns, selected) ==
  LET kept == unselectedColumns(columns, selected)
  IN [i \in 1..Len(kept) |-> toOption(kept[i].name)]

\* the slot's own value put after the unselected ones
handleLoadReselectColumnsSelfLast(selfVal, columns, selected) ==
  handleLoadUnselectedColumns(columns, selected) \o <<toOption(selfVal)>>

\* l.91-95
handleLoadReselectColumns(selfVal, columns, selected) ==
  <<toOption(selfVal)>> \o handleLoadUnselectedColumns(columns, selected)

-----------------------------------------------------------------------------
(* Query mutation *)

\* types: the fields the defaults of a Query set: an empty selection (no
\* table and no time column)
defaultQuery == [selectedColumns |-> <<>>]

\* l.20: lodash defaults(object, source) assigns to object every field of
\* source that object does not hold, and returns object
defaults(object, source) ==
  [key \in DOMAIN object \cup DOMAIN source |->
     IF key \in DOMAIN object THEN object[key] ELSE source[key]]

\* a change of the table that also resets the fields chosen for the old table
changeQueryByKeyResettingDependents(q, key, value) ==
  IF key = "fromTable"
    THEN [q EXCEPT !.fromTable = value, !.timeColumn = undefined, !.selectedColumns = <<>>]
    ELSE [q EXCEPT ![key] = value]

\* l.25-27: the Query handed to onChange, {...query, [key]: value}
changeQueryByKey(q, key, value) == [q EXCEPT ![key] = value]

\* l.29-31
handleFromTableChange(q, select) == changeQueryByKey(q, "fromTable", select.value)

\* l.33-35
handleTimeColumnChange(q, select) == changeQueryByKey(q, "timeColumn", select.value)

\* l.72: (oriSelectedColumns ?? []).concat(['foobar'])
displayedColumns(q) == q.selectedColumns \o <<foobar>>

\* slice(0, -1) left out: the placeholder stays in the committed list
handleAddColumnKeepingPlaceholder(q, selected, select) ==
  changeQueryByKey(q, "selectedColumns", selected \o <<select.value>>)

\* l.83-86: selected is the displayed list of the render the handler closes over
handleAddColumn(q, selected, select) ==
  changeQueryByKey(q, "selectedColumns", DropLast(selected) \o <<select.value>>)

-----------------------------------------------------------------------------
(* Promises and memo cells *)

\* a memo that recomputes on every render
useMemoEveryRender(cell, deps, fresh) == [deps |-> deps, value |-> fresh]

\* a memo whose dependency array names the client alone
useMemoClientOnly(cell, deps, fresh) ==
  IF cell.deps[1] = deps[1] THEN cell ELSE [deps |-> deps, value |-> fresh]

\* React's useMemo: the cell is recomputed when a dependency changed
useMemo(cell, deps, fresh) ==
  IF cell.deps = deps THEN cell ELSE [deps |-> deps, value |-> fresh]

\* l.46
showTablesPromise(c) ==
  [call |-> "showTables", client |-> c, table |-> undefined, state |-> "pending"]

\* the conditional of l.55 left out: the lookup is made for an unset table too
columnSchemaPromiseAlwaysFetching(c, fromTable) ==
  [call |-> "queryColumnSchemaOfTable", client |-> c, table |-> fromTable,
   state |-> "pending"]

\* l.55
columnSchemaPromise(c, fromTable) ==
  IF fromTable # undefined
    THEN [call |-> "queryColumnSchemaOfTable", client |-> c, table |-> fromTable,
          state |-> "pending"]
    ELSE [call |-> "resolve", client |-> c, table |-> undefined, state |-> "fulfilled"]

\* what a fulfilled promise holds
PromiseValue(p) ==
  IF p.call = "showTables" THEN showTables
  ELSE IF p.call = "queryColumnSchemaOfTable" THEN queryColumnSchemaOfTable(p.table)
  ELSE <<>>

\* l.20-77: one run of the function body with client c and query q
Render(c, q) ==
  LET tablesCell == useMemo(getAllTables, <<c>>, Len(promises) + 1)
      withTables == IF tablesCell.value = Len(promises) + 1
                      THEN Append(promises, showTablesPromise(c))
                      ELSE promises
      columnsCell == useMemo(getColumnSchema, <<c, q.fromTable>>, Len(withTables) + 1)
      withColumns == IF columnsCell.value = Len(withTables) + 1
                       THEN Append(withTables, columnSchemaPromise(c, q.fromTable))
                       ELSE withTables
  IN /\ Len(withColumns) <= MaxPromises
     /\ promises' = withColumns
     /\ getAllTables' = tablesCell
     /\ getColumnSchema' = columnsCell
     /\ getTimeColumns' = useMemo(getTimeColumns, <<columnsCell.value>>, columnsCell.value)
     /\ selectedColumns' = displayedColumns(q)
     /\ unselectedColumnsSchemas' =
          [awaits |-> columnsCell.value, selected |-> displayedColumns(q)]

-----------------------------------------------------------------------------
(* Pickers: the SegmentAsync / AddSegment widgets, one option request each *)

Pickers == {"fromTable", "timeColumn", "add", "column"}

\* answeredUnder is the fromTable of the Query at the moment the request was
\* answered (undefined until then)
Closed ==
  [state |-> "closed", awaits |-> 0, selected |-> <<>>, selfVal |-> undefined,
   options |-> <<>>, answeredUnder |-> undefined]

\* the loadOptions prop of picker p (l.104, l.112, l.118, l.126) on the value
\* of the promise it awaits
loadOptions(p, value, selected, selfVal) ==
  IF p = "fromTable" THEN handleLoadFromTables(value)
  ELSE IF p = "timeColumn" THEN timeColumns(value)
  ELSE IF p = "add" THEN handleLoadUnselectedColumns(value, selected)
  ELSE handleLoadReselectColumns(selfVal, value, selected)

\* a rejection taken for an empty result
AnsweredSwallowingRejection(p, r, all, fromTable) ==
  LET promise == all[r.awaits]
  IN IF promise.state = "fulfilled"
       THEN [r EXCEPT !.state = "options", !.answeredUnder = fromTable,
                      !.options = loadOptions(p, PromiseValue(promise), r.selected, r.selfVal)]
     ELSE IF promise.state = "rejected"
       THEN [r EXCEPT !.state = "options", !.answeredUnder = fromTable]
     ELSE r

\* the awaits of l.50, l.64, l.75, l.80, l.93, l.112: a request of picker p,
\* answered as far as the promise it awaits is settled; awaiting a rejected
\* promise throws, so the request fails
Answered(p, r, all, fromTable) ==
  LET promise == all[r.awaits]
  IN IF promise.state = "fulfilled"
       THEN [r EXCEPT !.state = "options", !.answeredUnder = fromTable,
                      !.options = loadOptions(p, PromiseValue(promise), r.selected, r.selfVal)]
     ELSE IF promise.state = "rejected"
       THEN [r EXCEPT !.state = "failed", !.answeredUnder = fromTable]
     ELSE r

Request(awaits, selected, selfVal) ==
  [state |-> "loading", awaits |-> awaits, selected |-> selected, selfVal |-> selfVal,
   options |-> <<>>, answeredUnder |-> undefined]

-----------------------------------------------------------------------------
(* Initial state: the component after its first render *)

\* the default Query, and a Query an earlier session saved
InitQueries ==
  { [fromTable |-> undefined, timeColumn |-> undefined, selectedColumns |-> <<>>],
    [fromTable |-> "A", timeColumn |-> undefined, selectedColumns |-> <<"cpu">>] }

\* l.17-77: the first render, of the record the host hands over
Mount(given) ==
  /\ client = 1
  /\ hostQuery = given
  /\ query = defaults(given, defaultQuery)
  /\ promises = <<showTablesPromise(client), columnSchemaPromise(client, query.fromTable)>>
  /\ getAllTables = [deps |-> <<client>>, value |-> 1]
  /\ getColumnSchema = [deps |-> <<client, query.fromTable>>, value |-> 2]
  /\ getTimeColumns = [deps |-> <<2>>, value |-> 2]
  /\ selectedColumns = displayedColumns(query)
  /\ unselectedColumnsSchemas = [awaits |-> 2, selected |-> selectedColumns]
  /\ pickers = [p \in Pickers |-> Closed]
  /\ onChange = <<>>
  /\ handled = "none"

Init == \E given \in InitQueries : Mount(given)

-----------------------------------------------------------------------------
(* Renders the host causes *)

\* the host renders the component again with the same props
Rerender ==
  /\ Render(client, query)
  /\ hostQuery' = query
  /\ onChange' = <<>>
  /\ handled' = "none"
  /\ UNCHANGED <<client, query, pickers>>

\* the host hands over another datasource, whose client is a new object
ChangeClient ==
  /\ client' = client + 1
  /\ Render(client + 1, query)
  /\ hostQuery' = query
  /\ onChange' = <<>>
  /\ handled' = "none"
  /\ UNCHANGED <<query, pickers>>

-----------------------------------------------------------------------------
(* Option requests *)

UnchangedRender ==
  UNCHANGED <<client, hostQuery, query, getAllTables, getColumnSchema, getTimeColumns,
              selectedColumns, unselectedColumnsSchemas>>

\* the user opens the table picker: handleLoadFromTables awaits getAllTables
OpenFromTable ==
  /\ pickers' = [pickers EXCEPT !["fromTable"] =
       Answered("fromTable", Request(getAllTables.value, <<>>, undefined), promises, query.fromTable)]
  /\ onChange' = <<>>
  /\ handled' = "none"
  /\ UNCHANGED promises
  /\ UnchangedRender

\* the user opens the time column picker: l.112 awaits getTimeColumns
OpenTimeColumn ==
  /\ pickers' = [pickers EXCEPT !["timeColumn"] =
       Answered("timeColumn", Request(getTimeColumns.value, <<>>, undefined), promises, query.fromTable)]
  /\ onChange' = <<>>
  /\ handled' = "none"
  /\ UNCHANGED promises
  /\ UnchangedRender

\* the user opens the add control: awaits this render's unselectedColumnsSchemas
OpenAdd ==
  /\ pickers' = [pickers EXCEPT !["add"] =
       Answered("add", Request(unselectedColumnsSchemas.awaits,
                               unselectedColumnsSchemas.selected, undefined), promises, query.fromTable)]
  /\ onChange' = <<>>
  /\ handled' = "none"
  /\ UNCHANGED promises
  /\ UnchangedRender

\* the user opens the picker of the slot showing selectedColumns[i]
OpenColumn ==
  \E i \in 1..(Len(selectedColumns) - 1) :
    /\ pickers' = [pickers EXCEPT !["column"] =
         Answered("column", Request(unselectedColumnsSchemas.awaits,
                                    unselectedColumnsSchemas.selected,
                                    selectedColumns[i]), promises, query.fromTable)]
    /\ onChange' = <<>>
    /\ handled' = "none"
    /\ UNCHANGED promises
    /\ UnchangedRender

-----------------------------------------------------------------------------
(* The schema client settles a lookup *)

\* a promise some memo cell holds or some open request awaits
Held(id) ==
  \/ id \in {getAllTables.value, getColumnSchema.value, getTimeColumns.value,
             unselectedColumnsSchemas.awaits}
  \/ \E p \in Pickers : pickers[p].state = "loading" /\ pickers[p].awaits = id

\* a settling lookup that hands the current Query to onChange
SettleNotifying(id, outcome) ==
  /\ promises[id].state = "pending"
  /\ Held(id)
  /\ promises' = [promises EXCEPT ![id].state = outcome]
  /\ pickers' = [p \in Pickers |->
       IF pickers[p].state = "loading" /\ pickers[p].awaits = id
         THEN Answered(p, pickers[p], promises', query.fromTable)
         ELSE pickers[p]]
  /\ onChange' = <<query>>
  /\ handled' = "none"
  /\ UnchangedRender

\* the outcome of a lookup nothing holds any more is observed by nobody: its
\* settling is no step of the component
Settle(id, outcome) ==
  /\ promises[id].state = "pending"
  /\ Held(id)
  /\ promises' = [promises EXCEPT ![id].state = outcome]
  /\ pickers' = [p \in Pickers |->
       IF pickers[p].state = "loading" /\ pickers[p].awaits = id
         THEN Answered(p, pickers[p], promises', query.fromTable)
         ELSE pickers[p]]
  /\ onChange' = <<>>
  /\ handled' = "none"
  /\ UnchangedRender

FetchFulfilled == \E id \in 1..Len(promises) : Settle(id, "fulfilled")

FetchRejected == \E id \in 1..Len(promises) : Settle(id, "rejected")

-----------------------------------------------------------------------------
(* Gestures: the user picks one of the options a picker shows *)

\* the options of picker p were delivered when fromTable was no longer the
\* table they had been requested for
Late(p) ==
  /\ p # "fromTable"
  /\ pickers[p].answeredUnder # promises[pickers[p].awaits].table

\* onChange called a second time with the same Query
CommitTwice(newQuery) ==
  /\ onChange' = <<newQuery, newQuery>>
  /\ hostQuery' = newQuery
  /\ query' = defaults(newQuery, defaultQuery)
  /\ Render(client, defaults(newQuery, defaultQuery))
  /\ UNCHANGED client

\* l.26: onChange(newQuery); the host keeps the Query it was given and
\* renders the component again
Commit(newQuery) ==
  /\ onChange' = <<newQuery>>
  /\ hostQuery' = newQuery
  /\ query' = defaults(newQuery, defaultQuery)
  /\ Render(client, defaults(newQuery, defaultQuery))
  /\ UNCHANGED client

Offered(p) == IF pickers[p].state = "options" THEN Range(pickers[p].options) ELSE {}

PickFromTable ==
  \E select \in Offered("fromTable") :
    /\ Commit(handleFromTableChange(query, select))
    /\ pickers' = [pickers EXCEPT !["fromTable"] = Closed]
    /\ handled' = "fromTable"

PickTimeColumn ==
  \E select \in Offered("timeColumn") :
    /\ Commit(handleTimeColumnChange(query, select))
    /\ pickers' = [pickers EXCEPT !["timeColumn"] = Closed]
    /\ handled' = "timeColumn"

AddColumn ==
  \E select \in Offered("add") :
    /\ Commit(handleAddColumn(query, selectedColumns, select))
    /\ pickers' = [pickers EXCEPT !["add"] = Closed]
    /\ handled' = "add"

\* a slot handler that commits the picked name in place of the slot's value
PickColumnReplacing ==
  \E select \in Offered("column") :
    /\ Commit(changeQueryByKey(query, "selectedColumns",
         [i \in 1..Len(query.selectedColumns) |->
            IF query.selectedColumns[i] = pickers["column"].selfVal
              THEN select.value
              ELSE query.selectedColumns[i]]))
    /\ handled' = "column"
    /\ pickers' = [pickers EXCEPT !["column"] = Closed]

\* l.123-125: the change handler of a column slot returns at once
PickColumn ==
  \E select \in Offered("column") :
    /\ onChange' = <<>>
    /\ handled' = "column"
    /\ pickers' = [pickers EXCEPT !["column"] = Closed]
    /\ UNCHANGED promises
    /\ UnchangedRender

-----------------------------------------------------------------------------

Next ==
  \/ Rerender
  \/ ChangeClient
  \/ OpenFromTable
  \/ OpenTimeColumn
  \/ OpenAdd
  \/ OpenColumn
  \/ FetchFulfilled
  \/ FetchRejected
  \/ PickFromTable
  \/ PickTimeColumn
  \/ AddColumn
  \/ PickColumn

Spec == Init /\ [][Next]_vars

\* a Query record the host created without a selection: it holds no
\* selectedColumns field, and neither table nor time column
NoFields == [fromTable |-> undefined, timeColumn |-> undefined]

InitDefault == Mount(NoFields)

\* the editor opened on a new Query: the render starts from the default Query
SpecDefault == InitDefault /\ [][Next]_vars

\* a Query saved with a column selection and no table
SavedWithoutTable ==
  [fromTable |-> undefined, timeColumn |-> undefined, selectedColumns |-> <<"cpu">>]

InitNoTable == Mount(SavedWithoutTable)

\* the editor opened on a Query that names no table
SpecNoTable == InitNoTable /\ [][Next]_vars

-----------------------------------------------------------------------------
(* Properties *)

\* the Queries the step into this state handed to onChange
Emitted == Range(onChange)

\* this step is the user picking an option of picker p: the picker closes
Picks(p) == pickers[p].state = "options" /\ pickers'[p].state = "closed"

\* C1: every Query passed to the host's onChange callback has a
\* selectedColumns sequence without duplicate entries and without the
\* placeholder of the add slot (the initial Queries are duplicate-free and
\* hold no placeholder).
C1_OnChangeKeepsQueryInvariant ==
  \A q \in Emitted :
    /\ NoDuplicates(q.selectedColumns)
    /\ ~Includes(q.selectedColumns, foobar)

\* the step into this state was an add-column gesture: a Query was handed
\* over and it came neither from the table picker nor from the time column
\* picker, which are both still open
AddJustCommitted ==
  /\ onChange # <<>>
  /\ pickers["add"].state = "closed"
  /\ pickers["fromTable"].state # "closed"
  /\ pickers["timeColumn"].state # "closed"

\* a column was added to a selection that already held one
C1_Witness ==
  /\ AddJustCommitted
  /\ \E q \in Emitted : Len(q.selectedColumns) = 2

-----------------------------------------------------------------------------
(* The schema cache *)

ColumnPickers == {"timeColumn", "add", "column"}

\* the promises this step created
Created == (Len(promises) + 1)..Len(promises')

\* the producer calls this step made for the table list / for the column list
TableCalls == {i \in Created : promises'[i].call = "showTables"}
ColumnCalls == {i \in Created : promises'[i].call # "showTables"}

\* the dependency keys of the two lookups
TableKey == <<client>>
ColumnKey == <<client, query.fromTable>>

\* the promise a request of picker p has to await
CellOf(p) == IF p = "fromTable" THEN getAllTables.value ELSE getColumnSchema.value

\* this step opens picker p (or opens it again): no promise settles and the
\* picker holds another request than before
Opens(p) ==
  /\ pickers'[p] # pickers[p]
  /\ pickers'[p].state # "closed"
  /\ promises' = promises

\* C2: for both dependency keys, a step that leaves the key unchanged makes
\* no producer call and leaves the memoised promise the same one, every
\* option request awaits the promise memoised for its key (so requests made
\* under an unchanged key share one result), and a step that changes any
\* part of a key puts a newly created promise into the cell.
C2_OneComputationPerStableKey ==
  [][ /\ TableKey' = TableKey =>
           /\ getAllTables'.value = getAllTables.value
           /\ TableCalls = {}
      /\ ColumnKey' = ColumnKey =>
           /\ getColumnSchema'.value = getColumnSchema.value
           /\ ColumnCalls = {}
      /\ TableKey' # TableKey =>
           /\ TableCalls = {getAllTables'.value}
      /\ ColumnKey' # ColumnKey =>
           /\ ColumnCalls = {getColumnSchema'.value}
      /\ \A p \in Pickers : Opens(p) => pickers'[p].awaits = CellOf(p)
    ]_vars

\* after a change of table, two pickers wait on the one column lookup of the
\* new key
C2_Witness ==
  /\ Len(promises) >= 3
  /\ pickers["timeColumn"].state = "loading"
  /\ pickers["add"].state = "loading"
  /\ pickers["timeColumn"].awaits = getColumnSchema.value
  /\ pickers["add"].awaits = getColumnSchema.value
  /\ getColumnSchema.value = Len(promises)

\* the dependency key a promise was created for
KeyOf(promise) ==
  IF promise.call = "showTables" THEN <<promise.client>>
  ELSE <<promise.client, promise.table>>

\* a lookup that is in flight, or that a memo cell holds
Exists(i) ==
  \/ promises[i].state = "pending"
  \/ i \in {getAllTables.value, getColumnSchema.value}

\* C3 as claimed: no two computations that are in flight or held exist for
\* one dependency key.
C3_AtMostOneComputationPerKey ==
  \A i, j \in 1..Len(promises) :
    (i # j /\ Exists(i) /\ Exists(j)) => KeyOf(promises[i]) # KeyOf(promises[j])

\* C3 as amended: each memo cell holds exactly one promise, made for the
\* current dependency key, and it is the newest promise made for that key;
\* the derived cells follow the column cell.
C3_CellHoldsNewestForCurrentKey ==
  /\ getAllTables.deps = TableKey
  /\ promises[getAllTables.value].call = "showTables"
  /\ KeyOf(promises[getAllTables.value]) = TableKey
  /\ getColumnSchema.deps = ColumnKey
  /\ promises[getColumnSchema.value].call # "showTables"
  /\ KeyOf(promises[getColumnSchema.value]) = ColumnKey
  /\ \A i \in 1..Len(promises) :
       /\ KeyOf(promises[i]) = TableKey => i <= getAllTables.value
       /\ KeyOf(promises[i]) = ColumnKey => i <= getColumnSchema.value
  /\ getTimeColumns.value = getColumnSchema.value
  /\ unselectedColumnsSchemas.awaits = getColumnSchema.value

\* the table went from A to B and back to A while the first lookup for A was
\* in flight: two lookups for A are pending, the cell holds the second
C3_Witness ==
  \E i \in 1..Len(promises) :
    /\ i < getColumnSchema.value
    /\ KeyOf(promises[i]) = ColumnKey
    /\ promises[i].state = "pending"
    /\ promises[getColumnSchema.value].state = "pending"
    /\ promises[i].call = "queryColumnSchemaOfTable"

-----------------------------------------------------------------------------
(* Stale results and failures *)

\* C4 as claimed: once fromTable has left the table a column lookup was made
\* for, the late result of that lookup is never consulted: no picker is
\* handed options computed from it, and no column picked from such options
\* is committed.
C4_StaleResultNeverConsulted ==
  /\ [](\A p \in ColumnPickers : pickers[p].state = "options" => ~Late(p))
  /\ [][\A p \in {"timeColumn", "add"} : (Picks(p) /\ Late(p)) => onChange' = <<>>]_vars

\* the lookup the cell of a key holds was rejected
TablesRejected == promises[getAllTables.value].state = "rejected"
ColumnsRejected == promises[getColumnSchema.value].state = "rejected"

\* C5: a rejected lookup stays the state of its key: every request answered
\* from it fails, and while the key is unchanged the cell keeps the rejected
\* promise, every newly opened request fails with it and no producer call is
\* made; a producer is called again only in a step that changes the key.
C5_FailureIsCachedUntilKeyChanges ==
  /\ [](\A p \in Pickers :
          /\ pickers[p].state = "loading" => promises[pickers[p].awaits].state = "pending"
          /\ pickers[p].state = "options" => promises[pickers[p].awaits].state = "fulfilled"
          /\ pickers[p].state = "failed" => promises[pickers[p].awaits].state = "rejected"
          /\ pickers[p].state = "failed" => pickers[p].options = <<>>)
  /\ [][ /\ (TablesRejected /\ TableKey' = TableKey) =>
              /\ getAllTables' = getAllTables
              /\ TablesRejected'
              /\ (Opens("fromTable") => pickers'["fromTable"].state = "failed")
         /\ (ColumnsRejected /\ ColumnKey' = ColumnKey) =>
              /\ getColumnSchema' = getColumnSchema
              /\ ColumnsRejected'
              /\ \A p \in ColumnPickers : Opens(p) => pickers'[p].state = "failed"
         /\ TableCalls # {} => TableKey' # TableKey
         /\ ColumnCalls # {} => ColumnKey' # ColumnKey
       ]_vars

\* the column lookup of the current key was rejected and two pickers opened
\* under that key failed with it
C5_Witness ==
  /\ ColumnsRejected
  /\ pickers["timeColumn"].state = "failed"
  /\ pickers["add"].state = "failed"
  /\ pickers["timeColumn"].awaits = getColumnSchema.value
  /\ pickers["add"].awaits = getColumnSchema.value

-----------------------------------------------------------------------------
(* Option lists *)

\* the column list a request of picker p was answered from
ColumnsOf(p) == PromiseValue(promises[pickers[p].awaits])

\* one option per column whose name is not in selected, in column order
RECURSIVE OptionsNotIn(_, _)
OptionsNotIn(columns, selected) ==
  IF columns = <<>> THEN <<>>
  ELSE (IF Head(columns).name \in Range(selected)
          THEN <<>>
          ELSE <<[label |-> Head(columns).name, value |-> Head(columns).name]>>)
       \o OptionsNotIn(Tail(columns), selected)

\* C6 as claimed: the add-column option list is, in column order, one option
\* {label: name, value: name} per column whose name is not in the Query's
\* selectedColumns, whatever the column's name.
C6_AddOptionsAreExactlyTheUnselected ==
  pickers["add"].state = "options" =>
    pickers["add"].options = OptionsNotIn(ColumnsOf("add"), query.selectedColumns)

\* C7: the reselect option list of a slot starts with the option for the
\* slot's current value and goes on, in order, with the add-column option
\* list for the same columns and selection.
C7_ReselectIsSelfThenUnselected ==
  pickers["column"].state = "options" =>
    LET r == pickers["column"]
    IN /\ Len(r.options) >= 1
       /\ r.options[1] = [label |-> r.selfVal, value |-> r.selfVal]
       /\ Tail(r.options) = handleLoadUnselectedColumns(ColumnsOf("column"), r.selected)
       /\ \A i \in 2..Len(r.options) : r.options[i].value \notin Range(r.selected)
       /\ (/\ pickers["add"].state = "options"
           /\ pickers["add"].awaits = r.awaits
           /\ pickers["add"].selected = r.selected)
            => Tail(r.options) = pickers["add"].options

\* a slot showing cpu offers cpu first and then the unselected ts, while the
\* add control, answered from the same columns, offers ts
C7_Witness ==
  /\ pickers["column"].state = "options"
  /\ pickers["column"].selfVal = "cpu"
  /\ Len(pickers["column"].options) = 2
  /\ pickers["add"].state = "options"
  /\ pickers["add"].awaits = pickers["column"].awaits
  /\ Len(pickers["add"].options) = 1

\* one option per column the type mapper classifies as time, in column order
RECURSIVE TimeLikeOptions(_)
TimeLikeOptions(columns) ==
  IF columns = <<>> THEN <<>>
  ELSE (IF mapGreptimeTypeToGrafana(Head(columns).data_type) = FieldTypeTime
          THEN <<[label |-> Head(columns).name, value |-> Head(columns).name]>>
          ELSE <<>>)
       \o TimeLikeOptions(Tail(columns))

\* C8: for every resolved column list, the empty one included, the time
\* column option list holds exactly the columns classified as time-like, in
\* column order.
C8_TimeOptionsAreTheTimeLikeColumns ==
  pickers["timeColumn"].state = "options" =>
    pickers["timeColumn"].options = TimeLikeOptions(ColumnsOf("timeColumn"))

\* the columns of table A were resolved: of ts, cpu and foobar only ts is offered
C8_Witness ==
  /\ pickers["timeColumn"].state = "options"
  /\ Len(ColumnsOf("timeColumn")) = 3
  /\ Values(pickers["timeColumn"].options) = <<"ts">>

-----------------------------------------------------------------------------
(* The selection list *)

\* C9: an add-column gesture with a name not yet selected commits the
\* previous selectedColumns followed by the new name, and in every state the
\* displayed list is the Query's selectedColumns followed by exactly one
\* placeholder, which is its last item.
C9_AddAppendsAndPlaceholderIsLast ==
  /\ [][Picks("add") =>
         \E select \in Offered("add") :
           /\ select.value \notin Range(query.selectedColumns)
           /\ Len(onChange') = 1
           /\ onChange'[1].selectedColumns = Append(query.selectedColumns, select.value)
           /\ query' = onChange'[1]
      ]_vars
  /\ [](/\ selectedColumns = Append(query.selectedColumns, foobar)
        /\ {i \in 1..Len(selectedColumns) : selectedColumns[i] = foobar}
             = {Len(selectedColumns)})

\* ts was added to the selection <<cpu>>
C9_Witness ==
  /\ AddJustCommitted
  /\ onChange = <<query>>
  /\ query.selectedColumns = <<"cpu", "ts">>
  /\ selectedColumns = <<"cpu", "ts", foobar>>

\* C10 as claimed: picking a name in the picker of the slot at index i hands
\* the host a Query whose selectedColumns holds the picked name at i, all
\* other entries and the length being as before.
C10_ReselectCommitsReplacement ==
  [][Picks("column") =>
       \E select \in Offered("column"), i \in 1..Len(query.selectedColumns) :
         /\ query.selectedColumns[i] = pickers["column"].selfVal
         /\ Len(onChange') = 1
         /\ onChange'[1].selectedColumns = [query.selectedColumns EXCEPT ![i] = select.value]
    ]_vars

-----------------------------------------------------------------------------
(* What a gesture hands to the host *)

\* the pickers whose change handler commits, and the field each one targets
CommitPickers == {"fromTable", "timeColumn", "add"}

FieldOf(p) == IF p = "add" THEN "selectedColumns" ELSE p

\* C11: the Query a gesture hands to onChange has the fields of the current
\* Query and equals it in every field but the one the gesture targets
\* (fromTable for the table picker, timeColumn for the time column picker,
\* selectedColumns for the add control); when the targeted field is handed
\* over with its current value, the Query handed over equals the current one.
C11_OnlyTheTargetedFieldChanges ==
  [][\A p \in CommitPickers :
       Picks(p) =>
         /\ Len(onChange') = 1
         /\ DOMAIN onChange'[1] = DOMAIN query
         /\ \A key \in DOMAIN query \ {FieldOf(p)} : onChange'[1][key] = query[key]
         /\ onChange'[1][FieldOf(p)] = query[FieldOf(p)] => onChange'[1] = query
    ]_vars

\* table B was picked while cpu, a column of table A, was selected: the
\* Query handed over names B and still holds cpu
C11_Witness ==
  /\ handled = "fromTable"
  /\ Len(onChange) = 1
  /\ onChange[1].fromTable = "B"
  /\ onChange[1].selectedColumns = <<"cpu">>

\* C12: a pick in the table picker, in the time column picker or in the add
\* control hands exactly one Query to onChange within the step of the pick,
\* the Query holds the picked value in the targeted field and is the Query
\* of the next render, and no other step hands anything to onChange.
C12_OneOnChangePerGesture ==
  [][/\ \A p \in CommitPickers :
          Picks(p) =>
            /\ Len(onChange') = 1
            /\ query' = onChange'[1]
            /\ \E select \in Offered(p) :
                 IF p = "add"
                   THEN /\ onChange'[1].selectedColumns # <<>>
                        /\ onChange'[1].selectedColumns[Len(onChange'[1].selectedColumns)]
                             = select.value
                   ELSE onChange'[1][p] = select.value
     /\ (\A p \in CommitPickers : ~Picks(p)) => onChange' = <<>>
    ]_vars

\* ts was picked as time column: one Query, naming ts, was handed over
C12_Witness ==
  /\ handled = "timeColumn"
  /\ Len(onChange) = 1
  /\ onChange[1].timeColumn = "ts"
  /\ query = onChange[1]

\* this step settles a lookup
Settles ==
  \E id \in 1..Len(promises) :
    promises[id].state = "pending" /\ promises'[id].state # "pending"

\* C16: a step that opens a picker or settles a lookup, fulfilled or
\* rejected, hands nothing to onChange and leaves the Query as it is, and
\* while a picker waits for its options the field it targets keeps its value.
C16_ResolvingOptionsCommitsNothing ==
  [][/\ ((\E p \in Pickers : Opens(p)) \/ Settles) =>
          /\ onChange' = <<>>
          /\ query' = query
     /\ \A p \in CommitPickers :
          (pickers[p].state = "loading" /\ pickers'[p].state # "closed") =>
            query'[FieldOf(p)] = query[FieldOf(p)]
    ]_vars

\* the table list was refused, the time column picker shows its options and
\* the add control still waits: nothing was handed to onChange
C16_Witness ==
  /\ pickers["fromTable"].state = "failed"
  /\ pickers["timeColumn"].state = "options"
  /\ pickers["add"].state = "loading"
  /\ onChange = <<>>
  /\ handled = "none"

\* C18: a pick in the picker of a column slot hands nothing to onChange and
\* leaves the Query, the host's record and the displayed list as they are.
C18_ReselectIsNoOp ==
  [][Picks("column") =>
       /\ onChange' = <<>>
       /\ query' = query
       /\ hostQuery' = hostQuery
       /\ selectedColumns' = selectedColumns
    ]_vars

\* an option was picked in the slot showing cpu: nothing was handed to
\* onChange and the selection is still cpu
C18_Witness ==
  /\ handled = "column"
  /\ onChange = <<>>
  /\ query.fromTable = "A"
  /\ query.selectedColumns = <<"cpu">>

-----------------------------------------------------------------------------
(* Option lists while no table is chosen *)

\* C13 as claimed: while fromTable is unset, every option list derived from
\* the columns (time column picker, add control, picker of a column slot) is
\* delivered and is the empty sequence.
C13_NoTableNoOptions ==
  \A p \in ColumnPickers :
    (query.fromTable = undefined /\ pickers[p].state # "closed") =>
      /\ pickers[p].state = "options"
      /\ pickers[p].options = <<>>

\* C13 amended: while fromTable is unset, no option request is left waiting
\* or fails; the time column picker and the add control are given the empty
\* sequence, and the picker of a column slot is given exactly one option, the
\* slot's own value.
C13_NoTableOnlySelfOption ==
  \A p \in ColumnPickers :
    (query.fromTable = undefined /\ pickers[p].state # "closed") =>
      /\ pickers[p].state = "options"
      /\ pickers[p].options =
           IF p = "column" THEN <<toOption(pickers[p].selfVal)>> ELSE <<>>

\* no table is chosen and all three pickers were opened: the slot showing
\* cpu offers cpu, the other two offer nothing
C13_Witness ==
  /\ query.fromTable = undefined
  /\ pickers["column"].state = "options"
  /\ Values(pickers["column"].options) = <<"cpu">>
  /\ pickers["timeColumn"].state = "options"
  /\ pickers["timeColumn"].options = <<>>
  /\ pickers["add"].state = "options"
  /\ pickers["add"].options = <<>>

-----------------------------------------------------------------------------
(* Validity of the selections *)

\* the columns of the table the Query names
CurrentSchema ==
  IF query.fromTable = undefined THEN <<>> ELSE queryColumnSchemaOfTable(query.fromTable)

\* C14 as claimed: in every state reached from the default Query, timeColumn,
\* when set, names a time-like column of the schema of the current fromTable,
\* and every entry of selectedColumns names a column of that schema.
C14_NoInvalidSelection ==
  /\ query.timeColumn # undefined =>
        \E i \in 1..Len(CurrentSchema) :
          /\ CurrentSchema[i].name = query.timeColumn
          /\ mapGreptimeTypeToGrafana(CurrentSchema[i].data_type) = FieldTypeTime
  /\ \A column \in Range(query.selectedColumns) :
        \E i \in 1..Len(CurrentSchema) : CurrentSchema[i].name = column

-----------------------------------------------------------------------------
(* The host's record *)

\* C15 as claimed: the record the host handed over holds after the render
\* exactly what it held when it was handed over.
C15_HostRecordIsNotModified == query = hostQuery

-----------------------------------------------------------------------------
(* When lookups are awaited *)

\* the lookups awaited by the promises the render itself makes: getTimeColumns
\* (l.64) and unselectedColumnsSchemas (l.75) run up to their await inside
\* useMemo
RenderAwaits == {getTimeColumns.value, unselectedColumnsSchemas.awaits}

\* C17 as claimed: a schema lookup is awaited only for a picker that was
\* opened: every lookup the component awaits is awaited by the option request
\* of an open picker, so a render with no picker open awaits none.
C17_AwaitedOnlyWhenOpened ==
  \A id \in RenderAwaits :
    \E p \in Pickers : pickers[p].state # "closed" /\ pickers[p].awaits = id

====
